---- MODULE Spec2Model ----
(***************************************************************************)
(* Model of the cricket auction app (src/app.py).                          *)
(*                                                                         *)
(* The program is a Streamlit script: every operator interaction runs      *)
(* main() from the top.  A run reads the whole sheet, cleans the priority  *)
(* columns, detects the phase, computes the team stats, and then executes  *)
(* the handler of the widget that was clicked.  What survives between runs *)
(* is the sheet (the record store) and st.session_state.current_idx.  The  *)
(* values a run rendered (phase, pool, minimum bid, standings) stay on the  *)
(* page until the next run and decide which widgets the operator can use.  *)
(***************************************************************************)
EXTENDS Integers, Sequences, FiniteSets, TLC

(* --- CONFIGURATION (app.py lines 10-15) --- *)
TOTAL_PURSE == 100000
MIN_SQUAD == 18
MAX_SQUAD == 25
MIN_BID_R1 == 1000
MIN_BID_R2 == 500
TEAMS == <<"CSK", "MI", "RCB", "KKR">>
TeamSet == {TEAMS[k] : k \in 1 .. Len(TEAMS)}

(* --- Bounds of the model --- *)
\* Number of rows of the initial sheet that are not yet Sold.
NumLive == 2
\* Number of update_cell calls the record store may fail in one behaviour.
MaxApiErrors == 1
\* Rows of a mid-auction initial sheet already Sold to the first team (a
\* sheet the auction reaches by selling that many players at the round-1
\* minimum): one short of MIN_SQUAD and one short of MAX_SQUAD.
PreSoldCounts == {MIN_SQUAD - 1, MAX_SQUAD - 1}
\* Teams the operator picks in the "Buying Team" selectbox.
BuyingTeams == {"CSK", "MI"}

VARIABLES
    sheet,          \* the worksheet: data rows 2..n+1 (row 1 is the header)
    current_idx,    \* st.session_state.current_idx: {} is None, {i} is index i
    current_phase,  \* phase banner rendered by the last run
    active_pool,    \* active_pool (set of df indices) computed by the last run
    min_bid,        \* min_bid computed by the last run
    team_stats,     \* standings table computed by the last run
    clicked,        \* the button the last run handled: "", "pick", "sold", "unsold"
    sel_team,       \* sel_team of the last form submit (first team otherwise)
    bid,            \* bid of the last form submit (0 otherwise)
    notice,         \* st.error / st.success / st.warning / exception of the last run
    api_errors      \* environment: update_cell calls that have raised so far

vars == <<sheet, current_idx, current_phase, active_pool, min_bid, team_stats,
          clicked, sel_team, bid, notice, api_errors>>

(***************************************************************************)
(* Cells.  get_all_values() returns strings.  A priority cell is a string; *)
(* a Sold Price cell is <<>> when blank and <<n>> when it holds the digits *)
(* of n; pd.to_numeric(errors='coerce') turns anything else into NaN,      *)
(* written <<>> here.                                                      *)
(***************************************************************************)
NaN == <<>>

to_numeric(cell) ==
    CASE cell = "1" -> <<1>>
      [] cell = "2" -> <<2>>
      [] cell = "3" -> <<3>>
      [] OTHER -> NaN

fillna(x, default) == IF x = NaN THEN default ELSE x[1]

price_to_numeric(cell) == IF Len(cell) = 1 THEN cell ELSE NaN

(* main, "Fetch & Clean Data" and "Priority Cleaning": df index i is sheet  *)
(* row i + 2 because data.pop(0) removes the header row.                   *)
DataFrame(sh) ==
    [i \in 0 .. (Cardinality(DOMAIN sh) - 1) |->
        [Status         |-> sh[i + 2].Status,
         SoldPrice      |-> sh[i + 2].SoldPrice,
         TeamName       |-> sh[i + 2].TeamName,
         SetPriority    |-> fillna(to_numeric(sh[i + 2].SetPriority), 100),
         UnsoldPriority |-> fillna(to_numeric(sh[i + 2].UnsoldPriority), 2)]]

Min(S) == CHOOSE x \in S : \A y \in S : x <= y

(* main lines 113-116: the pools *)
pool_r1(df) == {i \in DOMAIN df : df[i].Status # "Sold" /\ df[i].Status # "Unsold"}
pool_r2(df) == {i \in DOMAIN df : df[i].Status = "Unsold"}

(* Mutant of pool_r2_p1: the priority flag is ignored. *)
pool_r2_p1_All(df) == pool_r2(df)

pool_r2_p1(df) == {i \in pool_r2(df) : df[i].UnsoldPriority = 1}

(* Mutant of current_set: the highest set number is taken. *)
current_set_Max(df) ==
    CHOOSE x \in {df[i].SetPriority : i \in pool_r1(df)} :
        \A i \in pool_r1(df) : df[i].SetPriority <= x

(* main line 124: current_set = pool_r1["Set Priority"].min() *)
current_set(df) == Min({df[i].SetPriority : i \in pool_r1(df)})

(* Mutant of PhaseDetection: the standard re-offer branch is missing. *)
PhaseDetection_NoStandardRound(df) ==
    IF pool_r1(df) # {} THEN
        [current_phase |-> <<"ROUND 1 (SET", current_set(df)>>,
         active_pool   |-> {i \in pool_r1(df) : df[i].SetPriority = current_set(df)},
         min_bid       |-> MIN_BID_R1]
    ELSE IF pool_r2_p1(df) # {} THEN
        [current_phase |-> <<"ROUND 2 (PRIORITY UNSOLD)">>,
         active_pool   |-> pool_r2_p1(df),
         min_bid       |-> MIN_BID_R2]
    ELSE
        [current_phase |-> <<"AUCTION COMPLETE">>,
         active_pool   |-> {},
         min_bid       |-> 0]

(* main lines 118-141, "Phase Detection" *)
PhaseDetection(df) ==
    IF pool_r1(df) # {} THEN
        [current_phase |-> <<"ROUND 1 (SET", current_set(df)>>,
         active_pool   |-> {i \in pool_r1(df) : df[i].SetPriority = current_set(df)},
         min_bid       |-> MIN_BID_R1]
    ELSE IF pool_r2_p1(df) # {} THEN
        [current_phase |-> <<"ROUND 2 (PRIORITY UNSOLD)">>,
         active_pool   |-> pool_r2_p1(df),
         min_bid       |-> MIN_BID_R2]
    ELSE IF pool_r2(df) # {} THEN
        [current_phase |-> <<"ROUND 2 (STANDARD UNSOLD)">>,
         active_pool   |-> pool_r2(df),
         min_bid       |-> MIN_BID_R2]
    ELSE
        [current_phase |-> <<"AUCTION COMPLETE">>,
         active_pool   |-> {},
         min_bid       |-> 0]

(* Is row i of df counted for team: Status == 'Sold', grouped by Team Name *)
SoldTo(df, team, i) == df[i].Status = "Sold" /\ df[i].TeamName = team

(* groupby('Team Name').agg({'Sold Price': 'sum'}) over rows 0 .. n-1, with  *)
(* pd.to_numeric(errors='coerce').fillna(0) applied to each price.          *)
RECURSIVE SumPrices(_, _, _)
SumPrices(df, team, n) ==
    IF n = 0 THEN 0
    ELSE SumPrices(df, team, n - 1)
         + (IF SoldTo(df, team, n - 1)
            THEN fillna(price_to_numeric(df[n - 1].SoldPrice), 0) ELSE 0)

(* Mutant of MaxBid: the reserve covers every missing player, the one being *)
(* bought included.                                                        *)
MaxBid_ReservesAll(spent, count, current_min_bid) ==
    LET remaining == TOTAL_PURSE - spent
        needed    == IF MIN_SQUAD - count > 0 THEN MIN_SQUAD - count ELSE 0
    IN  IF count >= MAX_SQUAD THEN 0
        ELSE IF count >= MIN_SQUAD THEN remaining
        ELSE remaining - (needed * current_min_bid)

(* Mutant of MaxBid: the spending is added to the purse. *)
MaxBid_AddsSpent(spent, count, current_min_bid) ==
    LET remaining == TOTAL_PURSE + spent
        needed    == IF MIN_SQUAD - count > 0 THEN MIN_SQUAD - count ELSE 0
    IN  IF count >= MAX_SQUAD THEN 0
        ELSE IF count >= MIN_SQUAD THEN remaining
        ELSE remaining - ((needed - 1) * current_min_bid)

(* Mutant of MaxBid: nothing is reserved for the players still needed. *)
MaxBid_NoReserve(spent, count, current_min_bid) ==
    LET remaining == TOTAL_PURSE - spent
    IN  IF count >= MAX_SQUAD THEN 0 ELSE remaining

(* calculate_team_stats, lines 79-87: one team's maximum bid *)
MaxBid(spent, count, current_min_bid) ==
    LET remaining == TOTAL_PURSE - spent
        needed    == IF MIN_SQUAD - count > 0 THEN MIN_SQUAD - count ELSE 0
    IN  IF count >= MAX_SQUAD THEN 0
        ELSE IF count >= MIN_SQUAD THEN remaining
        ELSE remaining - ((needed - 1) * current_min_bid)

(* calculate_team_stats *)
calculate_team_stats(df, current_min_bid) ==
    [team \in TeamSet |->
        LET spent == SumPrices(df, team, Cardinality(DOMAIN df))
            count == Cardinality({i \in DOMAIN df : SoldTo(df, team, i)})
        IN  [PurseLeft |-> TOTAL_PURSE - spent,
             Players   |-> count,
             MaxBid    |-> MaxBid(spent, count, current_min_bid),
             Status    |-> IF count < MAX_SQUAD THEN "Active" ELSE "FULL"]]

(* sheet.update_cell(r, column, value) *)
update_cell(sh, r, column, value) ==
    IF r \in DOMAIN sh THEN [sh EXCEPT ![r][column] = value] ELSE sh

(* What a run of main() renders from the sheet it read. *)
Rendered(sh) ==
    LET df == DataFrame(sh)
        ph == PhaseDetection(df)
    IN  /\ current_phase' = ph.current_phase
        /\ active_pool' = ph.active_pool
        /\ min_bid' = ph.min_bid
        /\ team_stats' = calculate_team_stats(df, ph.min_bid)

(***************************************************************************)
(* Initial sheets: PreSold rows already Sold, then NumLive rows that are   *)
(* Available or Unsold with blank Sold Price and Team Name.                *)
(***************************************************************************)
PreSoldRow ==
    [Status |-> "Sold", SoldPrice |-> <<MIN_BID_R1>>, TeamName |-> "CSK",
     SetPriority |-> "1", UnsoldPriority |-> ""]

LiveRows ==
    {row \in [Status : {"Available", "Unsold"}, SoldPrice : {<<>>}, TeamName : {""},
              SetPriority : {"1", ""}, UnsoldPriority : {"1", ""}] :
        row.Status = "Unsold" => row.SetPriority = "1"}

MidAuctionLiveRows == {row \in LiveRows : row.SetPriority = "1" /\ row.UnsoldPriority = ""}

SheetOf(c, live) ==
    [r \in 2 .. (c + NumLive + 1) |-> IF r - 1 <= c THEN PreSoldRow ELSE live[r - 1 - c]]

InitialSheets ==
    {SheetOf(0, live) : live \in [1 .. NumLive -> LiveRows]}
        \cup {SheetOf(c, live) : c \in PreSoldCounts, live \in [1 .. NumLive -> MidAuctionLiveRows]}

Init ==
    /\ sheet \in InitialSheets
    /\ current_idx = {}
    /\ LET df == DataFrame(sheet)
           ph == PhaseDetection(df)
       IN  /\ current_phase = ph.current_phase
           /\ active_pool = ph.active_pool
           /\ min_bid = ph.min_bid
           /\ team_stats = calculate_team_stats(df, ph.min_bid)
    /\ clicked = ""
    /\ sel_team = TEAMS[1]
    /\ bid = 0
    /\ notice = ""
    /\ api_errors = 0

(* The inputs of a run in which no form was submitted: the selectbox and   *)
(* the number_input are at their defaults (first team, min_value).        *)
NoForm ==
    /\ sel_team' = TEAMS[1]
    /\ bid' = 0

(* A run with no button pressed (page load, team selectbox change). *)
Render ==
    /\ clicked' = ""
    /\ NoForm
    /\ Rendered(sheet)
    /\ notice' = ""
    /\ UNCHANGED <<sheet, current_idx, api_errors>>

(* Mutant of PickNextPlayer: the draw samples the pool the page on screen   *)
(* was rendered with instead of the pool of the sheet the run reads.       *)
PickNextPlayer_StalePool ==
    /\ active_pool # {}
    /\ clicked' = "pick"
    /\ NoForm
    /\ \E i \in active_pool : current_idx' = {i}
    /\ notice' = ""
    /\ Rendered(sheet)
    /\ UNCHANGED <<sheet, api_errors>>

(* main lines 189-196: the PICK NEXT PLAYER button.  The button is enabled *)
(* when the page on screen was rendered with a non-empty pool; the run it  *)
(* triggers recomputes the pool from the sheet it reads.                   *)
PickNextPlayer ==
    /\ active_pool # {}
    /\ clicked' = "pick"
    /\ NoForm
    /\ LET pool == PhaseDetection(DataFrame(sheet)).active_pool
       IN  IF pool # {}
           THEN /\ \E i \in pool : current_idx' = {i}
                /\ notice' = ""
           ELSE /\ current_idx' = {}
                /\ notice' = "Phase Complete"
    /\ Rendered(sheet)
    /\ UNCHANGED <<sheet, api_errors>>

(* Mutant of RowOf: the header row is not counted. *)
RowOf_NoHeader(idx) == idx + 1

(* main line 240 and line 250: r = idx + 2 *)
RowOf(idx) == idx + 2

(* Mutant of Validate: the bid is not compared with Max Bid. *)
Validate_NoMaxCheck(price, lo, hi) ==
    IF price < lo THEN <<"Bid too low">> ELSE <<>>

(* Mutant of Validate: the Max Bid check comes first. *)
Validate_MaxFirst(price, lo, hi) ==
    (IF price > hi THEN <<"Exceeds Max Bid">> ELSE <<>>)
        \o (IF price < lo THEN <<"Bid too low">> ELSE <<>>)

(* main lines 235-237: the list errs *)
Validate(price, lo, hi) ==
    (IF price < lo THEN <<"Bid too low">> ELSE <<>>)
        \o (IF price > hi THEN <<"Exceeds Max Bid">> ELSE <<>>)

(* main lines 241-243: the three update_cell calls of a sale, of which the *)
(* first `writes` return and the next one raises.                          *)
SoldWrites(sh, r, price, team, writes) ==
    LET s1 == IF writes >= 1 THEN update_cell(sh, r, "Status", "Sold") ELSE sh
        s2 == IF writes >= 2 THEN update_cell(s1, r, "SoldPrice", <<price>>) ELSE s1
        s3 == IF writes >= 3 THEN update_cell(s2, r, "TeamName", team) ELSE s2
    IN  s3

(* Mutant of AfterWrites: the pointer is cleared before the writes. *)
AfterWrites_AlwaysClears(done) ==
    /\ current_idx' = {}
    /\ Rendered(sheet')
    /\ api_errors' = (IF done THEN api_errors ELSE api_errors + 1)

(* main lines 244-246 and 252-254: reached when no update_cell call raised, *)
(* they clear the pointer and rerun the script; an exception ends the run  *)
(* before them and leaves the page the run had rendered.                   *)
AfterWrites(done) ==
    IF done
    THEN /\ current_idx' = {}
         /\ Rendered(sheet')
         /\ UNCHANGED api_errors
    ELSE /\ current_idx' = current_idx
         /\ Rendered(sheet)
         /\ api_errors' = api_errors + 1

(* main lines 234-247: the SOLD button of the bidding form. *)
SoldDecision(team, price, writes) ==
    /\ current_idx # {}
    /\ clicked' = "sold"
    /\ sel_team' = team
    /\ bid' = price
    /\ LET idx  == CHOOSE i \in current_idx : TRUE
           df   == DataFrame(sheet)
           ph   == PhaseDetection(df)
           curr_stat == calculate_team_stats(df, ph.min_bid)[team]
           errs == Validate(price, ph.min_bid, curr_stat.MaxBid)
       IN  IF errs = <<>>
           THEN /\ sheet' = SoldWrites(sheet, RowOf(idx), price, team, writes)
                /\ notice' = (IF writes = 3 THEN "Sold!" ELSE "APIError")
                /\ AfterWrites(writes = 3)
           ELSE /\ notice' = errs[1]
                /\ Rendered(sheet)
                /\ UNCHANGED <<sheet, current_idx, api_errors>>

(* Bids the operator types: around the two limits the validator checks. *)
BidInputs(lo, hi) == {b \in {0, lo, hi, hi + 1} : b >= 0}

(* The operator's inputs to the SOLD button: a team, a bid around the two   *)
(* limits on screen for that team, and how many writes the store accepts   *)
(* (a rejected bid attempts none).                                         *)
Sold ==
    LET df == DataFrame(sheet)
        lo == PhaseDetection(df).min_bid
        st == calculate_team_stats(df, lo)
    IN  \E team \in BuyingTeams :
            \E price \in BidInputs(lo, st[team].MaxBid) :
                \E writes \in (IF Validate(price, lo, st[team].MaxBid) = <<>>
                                   /\ api_errors < MaxApiErrors
                                THEN 0 .. 3 ELSE {3}) :
                    SoldDecision(team, price, writes)

(* Mutant of UnsoldWrites: a no-sale also blanks the price and the team. *)
UnsoldWrites_ClearsSale(sh, r, writes) ==
    IF writes >= 1
    THEN update_cell(update_cell(update_cell(sh, r, "Status", "Unsold"),
                                 r, "SoldPrice", <<>>), r, "TeamName", "")
    ELSE sh

(* main line 251: the update_cell call of a no-sale. *)
UnsoldWrites(sh, r, writes) ==
    IF writes >= 1 THEN update_cell(sh, r, "Status", "Unsold") ELSE sh

(* main lines 249-254: the UNSOLD button of the bidding form. *)
UnsoldDecision(team, price, writes) ==
    /\ current_idx # {}
    /\ clicked' = "unsold"
    /\ sel_team' = team
    /\ bid' = price
    /\ LET idx == CHOOSE i \in current_idx : TRUE
       IN  /\ sheet' = UnsoldWrites(sheet, RowOf(idx), writes)
           /\ notice' = (IF writes = 1 THEN "Unsold" ELSE "APIError")
           /\ AfterWrites(writes = 1)

Unsold ==
    \E form \in {<<TEAMS[1], 0>>, <<TEAMS[2], MIN_BID_R1>>} :
        \E writes \in (IF api_errors < MaxApiErrors THEN 0 .. 1 ELSE {1}) :
            UnsoldDecision(form[1], form[2], writes)

Next == Render \/ PickNextPlayer \/ Sold \/ Unsold

Spec == Init /\ [][Next]_vars

(***************************************************************************)
(* Vocabulary of the properties, read off the sheet.                       *)
(***************************************************************************)
Rows == DOMAIN sheet
Undecided(r) == sheet[r].Status \notin {"Sold", "Unsold"}
SetPriorityOf(r) == DataFrame(sheet)[r - 2].SetPriority
UnsoldPriorityOf(r) == DataFrame(sheet)[r - 2].UnsoldPriority
SquadIn(sh, team) == {r \in DOMAIN sh : sh[r].Status = "Sold" /\ sh[r].TeamName = team}

RECURSIVE SpentUpTo(_, _, _)
SpentUpTo(sh, team, last) ==
    IF last < 2 THEN 0
    ELSE SpentUpTo(sh, team, last - 1)
         + (IF last \in SquadIn(sh, team) /\ sh[last].SoldPrice # <<>>
            THEN sh[last].SoldPrice[1] ELSE 0)

SpentIn(sh, team) == SpentUpTo(sh, team, Cardinality(DOMAIN sh) + 1)
SquadOf(team) == SquadIn(sheet, team)
SpentBy(team) == SpentIn(sheet, team)
PhaseNow == PhaseDetection(DataFrame(sheet))
StatsNow == calculate_team_stats(DataFrame(sheet), PhaseNow.min_bid)

(* C1: for every team the sum of the Sold Price of the players Sold to it  *)
(* is at most TOTAL_PURSE (Purse Left is never negative), in every state   *)
(* reached by draws and Sold / Unsold decisions.                           *)
C1_PurseNeverNegative ==
    \A team \in TeamSet :
        /\ SpentBy(team) <= TOTAL_PURSE
        /\ StatsNow[team].PurseLeft >= 0

(* C1 witness: a sale has just taken a team's spending to the whole purse. *)
C1_Witness ==
    /\ notice = "Sold!"
    /\ \E team \in TeamSet : SpentBy(team) = TOTAL_PURSE

(* C2: for every team the number of players Sold to it is at most          *)
(* MAX_SQUAD.                                                              *)
C2_SquadNeverExceedsMax ==
    \A team \in TeamSet : Cardinality(SquadOf(team)) <= MAX_SQUAD

(* C3: every player whose Status is Sold has a non-negative Sold Price     *)
(* recorded and a Team Name in TEAMS.                                      *)
C3_SoldHasPriceAndTeam ==
    \A r \in Rows :
        sheet[r].Status = "Sold" =>
            /\ sheet[r].SoldPrice # <<>>
            /\ sheet[r].SoldPrice[1] >= 0
            /\ sheet[r].TeamName \in TeamSet

(* C4: a draw never selects a player with set-priority s while an          *)
(* undecided player has a lower set-priority, never selects an Unsold      *)
(* player while an undecided player exists, and never selects an Unsold    *)
(* player whose unsold-priority is not 1 while an Unsold player with       *)
(* unsold-priority 1 exists.                                               *)
DrawRespectsOrder(r) ==
    /\ Undecided(r) =>
          \A q \in Rows : Undecided(q) => SetPriorityOf(r) <= SetPriorityOf(q)
    /\ sheet[r].Status = "Unsold" =>
          /\ \A q \in Rows : ~Undecided(q)
          /\ UnsoldPriorityOf(r) # 1 =>
                \A q \in Rows : sheet[q].Status = "Unsold" => UnsoldPriorityOf(q) # 1

C4_DrawOrder ==
    [][clicked' = "pick" =>
          \A i \in current_idx' : (i + 2) \in Rows /\ DrawRespectsOrder(i + 2)]_vars

(* C4 witness: a draw has selected a priority re-offer while a standard    *)
(* re-offer is waiting.                                                    *)
C4_Witness ==
    /\ clicked = "pick"
    /\ \E i \in current_idx :
          /\ sheet[i + 2].Status = "Unsold"
          /\ UnsoldPriorityOf(i + 2) = 1
          /\ \E q \in Rows : sheet[q].Status = "Unsold" /\ UnsoldPriorityOf(q) # 1

(* C5: phase selection returns the undecided players of minimum           *)
(* set-priority with MIN_BID_R1; else the Unsold players of unsold-priority *)
(* 1 with MIN_BID_R2; else the Unsold players with MIN_BID_R2; else the    *)
(* empty pool and AUCTION COMPLETE.  The pool is non-empty exactly when    *)
(* the phase is not AUCTION COMPLETE.                                      *)
C5_PhaseSelection ==
    LET und  == {r \in Rows : Undecided(r)}
        uns  == {r \in Rows : sheet[r].Status = "Unsold"}
        pri  == {r \in uns : UnsoldPriorityOf(r) = 1}
        pool == {i + 2 : i \in PhaseNow.active_pool}
        complete == PhaseNow.current_phase = <<"AUCTION COMPLETE">>
    IN  /\ und # {} =>
              /\ pool = {r \in und : \A q \in und : SetPriorityOf(r) <= SetPriorityOf(q)}
              /\ PhaseNow.min_bid = MIN_BID_R1
        /\ (und = {} /\ pri # {}) => (pool = pri /\ PhaseNow.min_bid = MIN_BID_R2)
        /\ (und = {} /\ pri = {} /\ uns # {}) => (pool = uns /\ PhaseNow.min_bid = MIN_BID_R2)
        /\ (und = {} /\ uns = {}) => (pool = {} /\ complete)
        /\ (pool # {}) <=> ~complete

(* C5 witness: after a no-sale the page shows the priority re-offer phase  *)
(* and its pool leaves out an Unsold player.                               *)
C5_Witness ==
    /\ notice = "Unsold"
    /\ current_phase = <<"ROUND 2 (PRIORITY UNSOLD)">>
    /\ active_pool # {}
    /\ \E r \in Rows : sheet[r].Status = "Unsold" /\ (r - 2) \notin active_pool

(* C6: Max Bid is 0 when count >= MAX_SQUAD, remaining when                *)
(* MIN_SQUAD <= count < MAX_SQUAD, and remaining - (needed - 1) * minimum  *)
(* bid when count < MIN_SQUAD; 0 players at minimum bid 1000 give 83000,   *)
(* 18 players with 5000 spent give 95000, 25 players give 0.               *)
C6_MaxBidCases ==
    \A team \in TeamSet :
        LET count     == Cardinality(SquadOf(team))
            remaining == TOTAL_PURSE - SpentBy(team)
            max_bid   == team_stats[team].MaxBid
        IN  /\ count >= MAX_SQUAD => max_bid = 0
            /\ (MIN_SQUAD <= count /\ count < MAX_SQUAD) => max_bid = remaining
            /\ count < MIN_SQUAD => max_bid = remaining - (MIN_SQUAD - count - 1) * min_bid
            /\ (count = 0 /\ min_bid = 1000) => max_bid = 83000
            /\ (count = 18 /\ SpentBy(team) = 5000) => max_bid = 95000
            /\ count = 25 => max_bid = 0

(* C6 witness: a team with 18 sold players and 5000 spent. *)
C6_Witness ==
    \E team \in TeamSet :
        /\ Cardinality(SquadOf(team)) = 18
        /\ SpentBy(team) = 5000
        /\ team_stats[team].MaxBid = 95000

(* C7: a Sold decision whose price is below the phase minimum bid or above *)
(* the selected team's Max Bid is rejected, with "Bid too low" when the    *)
(* price is below the minimum (also when both fail); a rejection writes no *)
(* cell and leaves the current-player pointer where it was.                *)
C7_RejectedBids ==
    [][clicked' = "sold" =>
          LET lo == PhaseNow.min_bid
              hi == StatsNow[sel_team'].MaxBid
          IN  (bid' < lo \/ bid' > hi) =>
                  /\ notice' = (IF bid' < lo THEN "Bid too low" ELSE "Exceeds Max Bid")
                  /\ sheet' = sheet
                  /\ current_idx' = current_idx
                  /\ current_idx' # {}]_vars

(* C7 witness: a bid that fails both checks has been rejected as too low. *)
C7_Witness ==
    /\ clicked = "sold"
    /\ notice = "Bid too low"
    /\ bid < PhaseNow.min_bid
    /\ bid > StatsNow[sel_team].MaxBid
    /\ current_idx # {}

(* C8: an Unsold decision on the current player, whatever bid and team are *)
(* entered and whatever the player's status, sets the Status to Unsold     *)
(* when the store takes the write and never changes the player's Sold      *)
(* Price, Team Name, Set Priority or Unsold Priority.                      *)
C8_UnsoldFrame ==
    [][clicked' = "unsold" =>
          \A i \in current_idx :
              /\ api_errors' = api_errors => sheet'[i + 2].Status = "Unsold"
              /\ sheet'[i + 2].SoldPrice = sheet[i + 2].SoldPrice
              /\ sheet'[i + 2].TeamName = sheet[i + 2].TeamName
              /\ sheet'[i + 2].SetPriority = sheet[i + 2].SetPriority
              /\ sheet'[i + 2].UnsoldPriority = sheet[i + 2].UnsoldPriority]_vars

(* C8 witness: a no-sale submitted with a non-zero bid and another team    *)
(* has left a priority re-offer Unsold with blank price and team.          *)
C8_Witness ==
    /\ clicked = "unsold"
    /\ notice = "Unsold"
    /\ bid > 0
    /\ sel_team # TEAMS[1]
    /\ \A r \in Rows : ~Undecided(r)
    /\ \E r \in Rows :
          /\ sheet[r].Status = "Unsold"
          /\ sheet[r].UnsoldPriority = "1"
          /\ sheet[r].SoldPrice = <<>>
          /\ sheet[r].TeamName = ""

(* C9: when a write of a Sold or Unsold decision fails the pointer is not  *)
(* cleared; a decision clears the pointer only after every one of its      *)
(* writes has reached the sheet; an accepted decision whose writes all     *)
(* succeed clears it.                                                      *)
C9_PointerFollowsWrites ==
    [][clicked' \in {"sold", "unsold"} =>
          LET accepted == \/ clicked' = "unsold"
                          \/ /\ bid' >= PhaseNow.min_bid
                             /\ bid' <= StatsNow[sel_team'].MaxBid
          IN  /\ api_errors' # api_errors => (current_idx' = current_idx /\ current_idx' # {})
              /\ current_idx' = {} =>
                    /\ api_errors' = api_errors
                    /\ \A i \in current_idx :
                          IF clicked' = "sold"
                          THEN /\ sheet'[i + 2].Status = "Sold"
                               /\ sheet'[i + 2].SoldPrice = <<bid'>>
                               /\ sheet'[i + 2].TeamName = sel_team'
                          ELSE sheet'[i + 2].Status = "Unsold"
              /\ (accepted /\ api_errors' = api_errors) => current_idx' = {}]_vars

(* C9 witness: a sale whose second or third write failed has left the      *)
(* player Sold in the sheet and still on the block.                        *)
C9_Witness ==
    /\ clicked = "sold"
    /\ notice = "APIError"
    /\ api_errors > 0
    /\ \E i \in current_idx : sheet[i + 2].Status = "Sold"

(***************************************************************************)
(* calculate_team_stats as a function of its two arguments: a second       *)
(* specification applies it to sheets and minimum bids drawn from bounded  *)
(* sets, among them squads at and around MIN_SQUAD and MAX_SQUAD.          *)
(***************************************************************************)
StatsRow(status, price, team) ==
    [Status |-> status, SoldPrice |-> price, TeamName |-> team,
     SetPriority |-> "1", UnsoldPriority |-> ""]

OtherRows ==
    <<StatsRow("Available", <<>>, ""), StatsRow("Unsold", <<>>, ""),
      StatsRow("Sold", <<MIN_BID_R1>>, TEAMS[2]), StatsRow("Sold", <<>>, ""),
      StatsRow("Unsold", <<MIN_BID_R2>>, TEAMS[1])>>

StatsSheetOf(n1, p1, n2, p2) ==
    [r \in 2 .. (n1 + n2 + Len(OtherRows) + 1) |->
        IF r - 1 <= n1 THEN StatsRow("Sold", <<p1>>, TEAMS[1])
        ELSE IF r - 1 <= n1 + n2 THEN StatsRow("Sold", <<p2>>, TEAMS[1])
        ELSE OtherRows[r - 1 - n1 - n2]]

StatsCounts == {0, 1, MIN_SQUAD - 1, MIN_SQUAD, MAX_SQUAD - 1, MAX_SQUAD, MAX_SQUAD + 1}
StatsSheets ==
    {StatsSheetOf(n1, p1, n2, p2) :
        n1 \in StatsCounts, p1 \in {0, MIN_BID_R1}, n2 \in {0, 1}, p2 \in {5000, 83000}}
StatsMinBids == {0, MIN_BID_R2, MIN_BID_R1}

(* The page starts on a sheet with no sale to the first team; each step is *)
(* a run of main() on another sheet with another minimum bid.             *)
InitStats ==
    /\ sheet = StatsSheetOf(0, 0, 0, 5000)
    /\ min_bid = MIN_BID_R1
    /\ team_stats = calculate_team_stats(DataFrame(sheet), min_bid)
    /\ current_phase = PhaseDetection(DataFrame(sheet)).current_phase
    /\ active_pool = PhaseDetection(DataFrame(sheet)).active_pool
    /\ current_idx = {}
    /\ clicked = ""
    /\ sel_team = TEAMS[1]
    /\ bid = 0
    /\ notice = ""
    /\ api_errors = 0

ApplyStats ==
    /\ \E sh \in StatsSheets, mb \in StatsMinBids :
          /\ sheet' = sh
          /\ min_bid' = mb
          /\ team_stats' = calculate_team_stats(DataFrame(sh), mb)
          /\ current_phase' = PhaseDetection(DataFrame(sh)).current_phase
          /\ active_pool' = PhaseDetection(DataFrame(sh)).active_pool
    /\ UNCHANGED <<current_idx, clicked, sel_team, bid, notice, api_errors>>

SpecStats == InitStats /\ [][ApplyStats]_vars

(* C10: with a team's player count and the minimum bid held fixed, Max Bid *)
(* does not increase when the team's total spent increases, and Max Bid is *)
(* exactly 0 whenever the player count is at least MAX_SQUAD.              *)
C10_MaxBidMonotone ==
    [][\A team \in TeamSet :
          /\ (/\ min_bid' = min_bid
              /\ Cardinality(SquadIn(sheet', team)) = Cardinality(SquadOf(team))
              /\ SpentIn(sheet', team) >= SpentBy(team))
                 => team_stats'[team].MaxBid <= team_stats[team].MaxBid
          /\ Cardinality(SquadIn(sheet', team)) >= MAX_SQUAD => team_stats'[team].MaxBid = 0]_vars

(* C10 witness: a team of 18 that has spent more than 5000 and may bid     *)
(* less than the 95000 it could bid at 5000 spent.                         *)
C10_Witness ==
    \E team \in TeamSet :
        /\ Cardinality(SquadOf(team)) = 18
        /\ SpentBy(team) > 5000
        /\ team_stats[team].MaxBid < 95000
        /\ team_stats[team].MaxBid >= 0

(***************************************************************************)
(* Draws and decisions over the whole auction.                             *)
(***************************************************************************)
PoolOf(sh) == PhaseDetection(DataFrame(sh)).active_pool

C12_DecisionFrame ==
    [][clicked' \in {"sold", "unsold"} =>
          /\ DOMAIN sheet' = DOMAIN sheet
          /\ \A i \in current_idx :
                /\ (i + 2) \in Rows
                /\ \A r \in Rows \ {i + 2} : sheet'[r] = sheet[r]
                /\ notice' = "Sold!" => sheet'[i + 2].Status = "Sold"
                /\ notice' = "Unsold" => sheet'[i + 2].Status = "Unsold"]_vars

(* C12 witness: a sale above the minimum bid has been written to one row   *)
(* while another row is still undecided.                                   *)
C12_Witness ==
    /\ clicked = "sold"
    /\ notice = "Sold!"
    /\ bid > MIN_BID_R1
    /\ \E r \in Rows :
          /\ sheet[r].Status = "Sold"
          /\ sheet[r].SoldPrice = <<bid>>
          /\ sheet[r].TeamName = sel_team
          /\ r > 2
          /\ \E q \in Rows \ {r} : Undecided(q)

(* C13: whenever the Max Bid computed for a team is zero or negative, no   *)
(* Sold decision for that team is accepted at any price: the bid is        *)
(* rejected and nothing is written.                                        *)
C13_NoBidAtZeroMax ==
    [][(clicked' = "sold" /\ StatsNow[sel_team'].MaxBid <= 0) =>
          /\ notice' \in {"Bid too low", "Exceeds Max Bid"}
          /\ sheet' = sheet
          /\ current_idx' = current_idx]_vars

(* C14: in every state reached by draws and Sold / Unsold decisions, every *)
(* team with fewer than MIN_SQUAD players has Purse Left of at least       *)
(* (MIN_SQUAD - count) times the minimum bid of the current phase, so its  *)
(* Max Bid is not negative and is at least that minimum bid; this holds    *)
(* for the sheet and for the page on screen, in round 1 and in round 2.    *)
ReserveHolds(stats, lo) ==
    \A team \in TeamSet :
        stats[team].Players < MIN_SQUAD =>
            /\ stats[team].PurseLeft >= (MIN_SQUAD - stats[team].Players) * lo
            /\ stats[team].MaxBid >= 0
            /\ stats[team].MaxBid >= lo

C14_ReserveInvariant ==
    /\ ReserveHolds(StatsNow, PhaseNow.min_bid)
    /\ ReserveHolds(team_stats, min_bid)

(* C14 witness: a team bought its first player in round 1 at its Max Bid,  *)
(* which left exactly the round-1 reserve, and the auction is now in       *)
(* round 2 with the lower minimum bid.                                     *)
C14_Witness ==
    /\ notice = "Sold!"
    /\ PhaseNow.min_bid = MIN_BID_R2
    /\ min_bid = MIN_BID_R2
    /\ \E team \in TeamSet :
          /\ StatsNow[team].Players = 1
          /\ StatsNow[team].PurseLeft = (MIN_SQUAD - 1) * MIN_BID_R1
          /\ StatsNow[team].MaxBid = StatsNow[team].PurseLeft - (MIN_SQUAD - 2) * MIN_BID_R2

(* C15: whenever a player is on the block that player is not Sold; a       *)
(* player's status only moves Available -> Sold, Available -> Unsold,      *)
(* Unsold -> Unsold or Unsold -> Sold; the Status, Sold Price and Team     *)
(* Name of a Sold player never change again; no player returns to          *)
(* Available; the phase never moves from round 2 back to round 1 nor to a  *)
(* lower-numbered set.                                                     *)
PhaseOf(sh) == PhaseDetection(DataFrame(sh)).current_phase
InRound1(ph) == ph[1] = "ROUND 1 (SET"
InRound2(ph) == ph \in {<<"ROUND 2 (PRIORITY UNSOLD)">>, <<"ROUND 2 (STANDARD UNSOLD)">>}

C15_StatusLifecycle ==
    [][/\ \A i \in current_idx' : sheet'[i + 2].Status # "Sold"
       /\ \A r \in Rows :
             /\ sheet[r].Status = "Sold" =>
                   /\ sheet'[r].Status = "Sold"
                   /\ sheet'[r].SoldPrice = sheet[r].SoldPrice
                   /\ sheet'[r].TeamName = sheet[r].TeamName
             /\ sheet[r].Status = "Unsold" => sheet'[r].Status \in {"Unsold", "Sold"}
             /\ sheet'[r].Status \in {sheet[r].Status, "Sold", "Unsold"}
       /\ InRound2(PhaseOf(sheet)) => ~InRound1(PhaseOf(sheet'))
       /\ (InRound1(PhaseOf(sheet)) /\ InRound1(PhaseOf(sheet'))) =>
              PhaseOf(sheet')[2] >= PhaseOf(sheet)[2]]_vars

(* C16: the phase is AUCTION COMPLETE only in states where every player is *)
(* Sold; an Unsold decision on a player drawn in round 2 leaves the        *)
(* eligible pool unchanged; a decision recorded for an undecided player    *)
(* takes that player, and no other, out of round 1, and no step puts a     *)
(* player back, so round 1 ends after one decision per undecided player;   *)
(* AUCTION COMPLETE is entered only by a step that records a sale.         *)
Complete(sh) == PhaseOf(sh) = <<"AUCTION COMPLETE">>
AllSold(sh) == \A r \in DOMAIN sh : sh[r].Status = "Sold"
UndecidedIn(sh) == {r \in DOMAIN sh : sh[r].Status \notin {"Sold", "Unsold"}}

C16_Completion ==
    [][/\ Complete(sheet') => AllSold(sheet')
       /\ current_phase' = <<"AUCTION COMPLETE">> => AllSold(sheet')
       /\ UndecidedIn(sheet') \subseteq UndecidedIn(sheet)
       /\ (Complete(sheet') /\ ~Complete(sheet)) =>
              /\ clicked' = "sold"
              /\ \E i \in current_idx : sheet[i + 2].Status # "Sold" /\ sheet'[i + 2].Status = "Sold"
       /\ \A i \in current_idx :
             /\ (clicked' = "unsold" /\ sheet[i + 2].Status = "Unsold") =>
                   /\ sheet' = sheet
                   /\ PoolOf(sheet') = PoolOf(sheet)
                   /\ PoolOf(sheet') # {}
                   /\ ~Complete(sheet')
             /\ ((i + 2) \in UndecidedIn(sheet) /\ notice' \in {"Sold!", "Unsold"}) =>
                   UndecidedIn(sheet') = UndecidedIn(sheet) \ {i + 2}]_vars

(* C16 witness: an Unsold decision on a player drawn in round 2 has been   *)
(* written, and the page shows the same round-2 pool with that player      *)
(* still in it, no player undecided and the auction not complete.          *)
C16_Witness ==
    /\ clicked = "unsold"
    /\ notice = "Unsold"
    /\ api_errors = 0
    /\ UndecidedIn(sheet) = {}
    /\ \A r \in Rows : sheet[r].Status = "Unsold"
    /\ current_phase = <<"ROUND 2 (STANDARD UNSOLD)">>
    /\ active_pool = {r - 2 : r \in Rows}
    /\ ~Complete(sheet)

(***************************************************************************)
(* Fair scheduling of the operator's draws and decisions: a button that    *)
(* stays or keeps becoming available is eventually pressed.                *)
(***************************************************************************)
FairSpec ==
    Spec /\ SF_vars(PickNextPlayer) /\ SF_vars(Sold) /\ SF_vars(Unsold)

(* C16, the completion that fair scheduling does not guarantee: under      *)
(* FairSpec this formula has behaviours that violate it, those in which    *)
(* every decision of round 2 is Unsold or a rejected bid.                  *)
C16_EventuallyComplete == <>Complete(sheet)

====
